---- MODULE Spec2Model ----
\* Model of the nexus share/unshare orchestration (nexus_share.rs) and of the
\* nexus child controller (nexus_child.rs) of Mayastor.
EXTENDS Integers, Sequences, FiniteSets, TLC

VARIABLES
    \* ---- Nexus export state (struct Nexus, fields used by nexus_share.rs)
    share_handle,    \* Option<String>: name of the bdev that is exported
    share_protocol,  \* Option<ShareProtocolNexus>
    nbd_disk,        \* Option<NbdDisk>: TRUE when Some
    iscsi_target,    \* Option<NexusIscsiTarget>: TRUE when Some
    bdevs,           \* names known to the bdev registry (Bdev::lookup_by_name)
    last,            \* the last share/unshare call: arguments, result, calls issued
    prev,            \* the call before the last one
    \* ---- Nexus children (struct NexusChild)
    state,           \* ChildState of each child
    bdev,            \* Option<Bdev>: the device a child is bound to
    desc,            \* Option<Arc<Descriptor>>
    bdev_handle,     \* Option<BdevHandle>
    claim,           \* per device: the child whose open claimed it (claim_module)
    clast,           \* the last child call: arguments, result, child before the call
    cprev,           \* operation and child of the call before the last one
    wlog,            \* the writes issued by the last write_label, in order
    disk,            \* per device: the content of each block
    \* ---- iSCSI target subsystem (target/iscsi.rs, nexus_iscsi.rs)
    portal_grps,     \* tags of the registered portal groups
    init_grps,       \* tags of the registered initiator groups
    tgt_nodes,       \* bdev names that have an iSCSI target node
    pc,              \* per future: its position
    signal,          \* per future: its oneshot channel
    ilast,           \* the last init or fini call: result, registry before it
    iprev,           \* the init or fini call before the last one
    \* ---- process
    panicked         \* a panic (assert_eq!, unwrap, expect) ended the process

iscsiVars == <<portal_grps, init_grps, tgt_nodes, pc, signal, ilast, iprev>>
nexusVars == <<share_handle, share_protocol, nbd_disk, iscsi_target, bdevs, last, prev,
               iscsiVars>>
childVars == <<state, bdev, desc, bdev_handle, claim, clast, cprev, wlog, disk>>
vars == <<nexusVars, childVars, panicked>>

\* ------------------------------------------------------------------ bounds
NumChildren == 2
MaxSize == 2

\* ------------------------------------------------------------------ values
None == "None"
NexusName == "nexus"
NoKey == "NoKey"
Keys == {NoKey, "key"}
Booleans == {TRUE, FALSE}

\* rpc::mayastor::ShareProtocolNexus
ShareProtocolNexus == {"NbdFe", "IscsiFe", "NvmfFe"}

\* format!("crypto-{}", self.name)
CryptoName == "crypto-nexus"

\* one collaborator call issued by an operation, with its outcome
Call(name, ok) == [call |-> name, ok |-> ok]

\* the export state of a nexus that is not shared
Unshared == [share_handle |-> None, share_protocol |-> None,
             nbd_disk |-> FALSE, iscsi_target |-> FALSE]

NoOp == [op |-> "none", proto |-> None, key |-> NoKey, result |-> None,
         calls |-> <<>>, pre |-> Unshared]

\* ------------------------------------------------------------------ Nexus::share

\* the export state of the nexus, as a record
NexusState == [share_handle |-> share_handle, share_protocol |-> share_protocol,
               nbd_disk |-> nbd_disk, iscsi_target |-> iscsi_target]

\* create_crypto_disk: the registry refuses a second bdev of the same name
CreateCryptoDisk(cryptoOk) == cryptoOk /\ CryptoName \notin bdevs

\* the name of the bdev that is exported: the crypto bdev when a key is given
ShareName(key) == IF key # NoKey THEN CryptoName ELSE NexusName

\* a share that records the export whether or not the backend was created
RecordShareAlways(created) == TRUE

\* share_handle and share_protocol are recorded only past the `?` of the
\* backend creation
RecordShare(created) == created

\* a share that goes on after create_crypto_disk returned an errno
CryptoFailedIgnored(crypto, cOk) == FALSE

\* errno_result_from_i32(name, errno).context(CreateCryptoBdev)?: share returns
\* when a crypto bdev was asked for and could not be created
CryptoFailed(crypto, cOk) == crypto /\ ~cOk

\* what share does, as a record: the result, the collaborator calls issued in
\* order, and the fields after the call
ShareOutcome(proto, key, cryptoOk, backendOk) ==
    LET same == [result |-> None, calls |-> <<>>, panic |-> FALSE,
                 share_handle |-> share_handle, share_protocol |-> share_protocol,
                 nbd_disk |-> nbd_disk, iscsi_target |-> iscsi_target,
                 bdevs |-> bdevs]
        crypto == key # NoKey
        cOk == CreateCryptoDisk(cryptoOk)
        c1 == IF crypto THEN <<Call("create_crypto_disk", cOk)>> ELSE <<>>
        b1 == IF crypto /\ cOk THEN bdevs \cup {CryptoName} ELSE bdevs
        name == ShareName(key)
        rec == RecordShare(backendOk)
    IN  IF share_handle # None
        THEN [same EXCEPT !.result = "panic", !.panic = TRUE]
        ELSE IF share_protocol # None
        THEN [same EXCEPT !.result = "AlreadyShared"]
        ELSE IF CryptoFailed(crypto, cOk)
        THEN [same EXCEPT !.result = "CreateCryptoBdev", !.calls = c1]
        ELSE IF proto = "NbdFe"
        THEN [same EXCEPT
                !.result = IF backendOk THEN "Ok" ELSE "ShareNbdNexus",
                !.calls = c1 \o <<Call("NbdDisk::create", backendOk)>>,
                !.bdevs = b1,
                !.nbd_disk = IF backendOk THEN TRUE ELSE nbd_disk,
                !.share_handle = IF rec THEN name ELSE share_handle,
                !.share_protocol = IF rec THEN proto ELSE share_protocol]
        ELSE IF proto = "IscsiFe"
        THEN [same EXCEPT
                !.result = IF backendOk THEN "Ok" ELSE "ShareIscsiNexus",
                !.calls = c1 \o <<Call("NexusIscsiTarget::create", backendOk)>>,
                !.bdevs = b1,
                !.iscsi_target = IF backendOk THEN TRUE ELSE iscsi_target,
                !.share_handle = IF rec THEN name ELSE share_handle,
                !.share_protocol = IF rec THEN proto ELSE share_protocol]
        ELSE [same EXCEPT !.result = "InvalidShareProtocol", !.calls = c1,
                          !.bdevs = b1]

Share(proto, key, cryptoOk, backendOk) ==
    LET o == ShareOutcome(proto, key, cryptoOk, backendOk)
    IN  /\ ~panicked
        /\ share_handle' = o.share_handle
        /\ share_protocol' = o.share_protocol
        /\ nbd_disk' = o.nbd_disk
        /\ iscsi_target' = o.iscsi_target
        /\ bdevs' = o.bdevs
        /\ panicked' = o.panic
        /\ prev' = last
        /\ last' = [op |-> "share", proto |-> proto, key |-> key,
                    result |-> o.result, calls |-> o.calls, pre |-> NexusState]
        /\ UNCHANGED <<childVars, iscsiVars>>

\* ------------------------------------------------------------------ Nexus::unshare

\* an unshare that reports success on a nexus that is not shared
NotSharedIsOk(o) == [o EXCEPT !.result = "Ok"]

\* unshare with share_protocol None: NotShared, nothing else done
NotShared(o) == [o EXCEPT !.result = "NotShared"]

\* what unshare does, as a record (see ShareOutcome)
UnshareOutcome(destroyOk, deleteOk) ==
    LET same == [result |-> None, calls |-> <<>>, panic |-> FALSE,
                 share_handle |-> share_handle, share_protocol |-> share_protocol,
                 nbd_disk |-> nbd_disk, iscsi_target |-> iscsi_target,
                 bdevs |-> bdevs]
        \* line 143 onwards, after the backend `b` was taken and destroyed
        Rest(o) ==
            IF share_handle = None
            THEN [o EXCEPT !.result = "panic", !.panic = TRUE]
            ELSE IF share_handle \in bdevs /\ NexusName # share_handle
            THEN IF deleteOk
                 THEN [o EXCEPT !.result = "Ok",
                         !.calls = o.calls \o <<Call("delete_crypto_disk", TRUE)>>,
                         !.share_handle = None, !.share_protocol = None,
                         !.bdevs = bdevs \ {share_handle}]
                 ELSE [o EXCEPT !.result = "DestroyCryptoBdev",
                         !.calls = o.calls \o <<Call("delete_crypto_disk", FALSE)>>,
                         !.share_handle = None]
            ELSE [o EXCEPT !.result = "Ok", !.share_handle = None,
                           !.share_protocol = None]
    IN  IF share_protocol = "NbdFe"
        THEN IF nbd_disk
             THEN Rest([same EXCEPT !.nbd_disk = FALSE,
                                    !.calls = <<Call("NbdDisk::destroy", TRUE)>>])
             ELSE [same EXCEPT !.result = "NotShared"]
        ELSE IF share_protocol = "IscsiFe"
        THEN IF iscsi_target
             THEN Rest([same EXCEPT !.iscsi_target = FALSE,
                         !.calls = <<Call("NexusIscsiTarget::destroy", destroyOk)>>])
             ELSE [same EXCEPT !.result = "NotShared"]
        ELSE IF share_protocol = "NvmfFe"
        THEN [same EXCEPT !.result = "InvalidShareProtocol"]
        ELSE NotShared(same)

Unshare(destroyOk, deleteOk) ==
    LET o == UnshareOutcome(destroyOk, deleteOk)
    IN  /\ ~panicked
        /\ share_handle' = o.share_handle
        /\ share_protocol' = o.share_protocol
        /\ nbd_disk' = o.nbd_disk
        /\ iscsi_target' = o.iscsi_target
        /\ bdevs' = o.bdevs
        /\ panicked' = o.panic
        /\ prev' = last
        /\ last' = [op |-> "unshare", proto |-> None, key |-> NoKey,
                    result |-> o.result, calls |-> o.calls, pre |-> NexusState]
        /\ UNCHANGED <<childVars, iscsiVars>>

\* ------------------------------------------------------------------ Nexus::get_share_path

\* disk.get_path(): the device path of the NBD disk
NbdPath == "/dev/nbd0"

\* a path is returned for whichever backend exists
get_share_pathAnyBackend == IF nbd_disk \/ iscsi_target THEN NbdPath ELSE None

\* Nexus::get_share_path
get_share_path == IF nbd_disk THEN NbdPath ELSE None

GetSharePath ==
    /\ ~panicked
    /\ prev' = last
    /\ last' = [op |-> "get_share_path", proto |-> None, key |-> NoKey,
                result |-> get_share_path, calls |-> <<>>, pre |-> NexusState]
    /\ UNCHANGED <<share_handle, share_protocol, nbd_disk, iscsi_target, bdevs,
                   childVars, iscsiVars, panicked>>

\* ------------------------------------------------------------------ NexusChild

Children == 1 .. NumChildren
NoBdev == "NoBdev"
NoChild == 0
Devices == {"bdev_a", "bdev_b"}
ParentSizes == 0 .. MaxSize

\* enum ChildState
ChildState == {"Init", "ConfigInvalid", "Open", "Closed", "Faulted"}

\* bdev.size_in_bytes() of the two devices
size_in_bytes(d) == IF d = "bdev_a" THEN 1 ELSE 2

\* the fields of child c
Child(c) == [state |-> state[c], bdev |-> bdev[c], desc |-> desc[c],
             bdev_handle |-> bdev_handle[c]]

NoChildOp == [op |-> "none", child |-> NoChild, parent_size |-> 0, result |-> None,
              pre |-> [state |-> "Init", bdev |-> NoBdev, desc |-> None,
                       bdev_handle |-> None],
              preClaim |-> NoChild, calls |-> <<>>, out |-> <<>>]

\* the claim on the device child c is bound to (NoChild when c has no device)
ClaimOf(c) == IF bdev[c] = NoBdev THEN NoChild ELSE claim[bdev[c]]

\* the call becomes the last call: `calls` are the collaborator calls it issued,
\* in order, and `out` holds the value it returned, if any
RecordFull(op, c, parent_size, result, calls, out) ==
    /\ cprev' = [op |-> clast.op, child |-> clast.child]
    /\ clast' = [op |-> op, child |-> c, parent_size |-> parent_size,
                 result |-> result, pre |-> Child(c), preClaim |-> ClaimOf(c),
                 calls |-> calls, out |-> out]

Record(op, c, parent_size, result) == RecordFull(op, c, parent_size, result, <<>>, <<>>)

\* an open that refuses only a child that is Open
OpenAllowedNotOpen(st) == st # "Open"

\* only devices in the Closed or Init state can be opened
OpenAllowed(st) == ~(st # "Closed" /\ st # "Init")

TooSmall(parent_size, child_size) == parent_size > child_size

\* Bdev::open_by_name(name, true): refused while the device is claimed
OpenByName(d, openOk) == openOk /\ claim[d] = NoChild

\* NexusChild::open
Open(c, parent_size, openOk, handleOk) ==
    /\ ~panicked
    /\ UNCHANGED <<bdev, wlog, disk, nexusVars>>
    /\ IF ~OpenAllowed(state[c])
       THEN /\ Record("open", c, parent_size, "ChildNotClosed")
            /\ UNCHANGED <<state, desc, bdev_handle, claim, panicked>>
       ELSE IF bdev[c] = NoBdev
       THEN /\ Record("open", c, parent_size, "OpenWithoutBdev")
            /\ UNCHANGED <<state, desc, bdev_handle, claim, panicked>>
       ELSE IF TooSmall(parent_size, size_in_bytes(bdev[c]))
       THEN /\ state' = [state EXCEPT ![c] = "ConfigInvalid"]
            /\ Record("open", c, parent_size, "ChildTooSmall")
            /\ UNCHANGED <<desc, bdev_handle, claim, panicked>>
       ELSE IF ~OpenByName(bdev[c], openOk)
       THEN /\ Record("open", c, parent_size, "OpenChild")
            /\ UNCHANGED <<state, desc, bdev_handle, claim, panicked>>
       ELSE /\ desc' = [desc EXCEPT ![c] = bdev[c]]
            /\ claim' = [claim EXCEPT ![bdev[c]] = c]
            /\ IF handleOk
               THEN /\ bdev_handle' = [bdev_handle EXCEPT ![c] = bdev[c]]
                    /\ state' = [state EXCEPT ![c] = "Open"]
                    /\ Record("open", c, parent_size, "Ok")
                    /\ UNCHANGED panicked
               ELSE \* BdevHandle::try_from(..).unwrap()
                    /\ panicked' = TRUE
                    /\ Record("open", c, parent_size, "panic")
                    /\ UNCHANGED <<state, bdev_handle>>

\* spdk_bdev_module_release_bdev when the device's claim_module is not null
ReleaseClaim(c) ==
    IF bdev[c] # NoBdev /\ claim[bdev[c]] # NoChild
    THEN [claim EXCEPT ![bdev[c]] = NoChild]
    ELSE claim

\* a close that drops the I/O handle and keeps the descriptor
ClosedKeepDesc(ch) == [ch EXCEPT !.state = "Closed", !.bdev_handle = None]

\* the fields of a child after close
Closed(ch) == [ch EXCEPT !.state = "Closed", !.bdev_handle = None, !.desc = None]

\* NexusChild::close
Close(c) ==
    LET ch == Closed(Child(c))
    IN  /\ ~panicked
        /\ claim' = ReleaseClaim(c)
        /\ state' = [state EXCEPT ![c] = ch.state]
        /\ bdev' = [bdev EXCEPT ![c] = ch.bdev]
        /\ desc' = [desc EXCEPT ![c] = ch.desc]
        /\ bdev_handle' = [bdev_handle EXCEPT ![c] = ch.bdev_handle]
        /\ Record("close", c, 0, ch.state)
        /\ UNCHANGED <<wlog, disk, nexusVars, panicked>>

\* NexusChild::get_descriptor: the descriptor, or InvalidDescriptor
get_descriptor(c) == IF desc[c] # None THEN "Ok" ELSE "InvalidDescriptor"

GetDescriptor(c) ==
    /\ ~panicked
    /\ RecordFull("get_descriptor", c, 0, get_descriptor(c), <<>>,
                  IF desc[c] # None THEN <<desc[c]>> ELSE <<>>)
    /\ UNCHANGED <<state, bdev, desc, bdev_handle, claim, wlog, disk, nexusVars, panicked>>

\* a destroy that does not look at the child's state
DestroyAllowedAlways(st) == TRUE

\* assert_eq!(self.state, ChildState::Closed)
DestroyAllowed(st) == st = "Closed"

\* NexusChild::destroy: bdev_destroy(&self.name) answers destroyOk
Destroy(c, destroyOk) ==
    /\ ~panicked
    /\ IF ~DestroyAllowed(state[c])
       THEN /\ panicked' = TRUE
            /\ Record("destroy", c, 0, "panic")
       ELSE IF bdev[c] # NoBdev
       THEN /\ RecordFull("destroy", c, 0,
                          IF destroyOk THEN "Ok" ELSE "BdevCreateDestroy",
                          <<Call("bdev_destroy", destroyOk)>>, <<>>)
            /\ UNCHANGED panicked
       ELSE /\ Record("destroy", c, 0, "Ok")
            /\ UNCHANGED panicked
    /\ UNCHANGED <<state, bdev, desc, bdev_handle, claim, wlog, disk, nexusVars>>

\* a non-fatal error occurred on an open child: its owner marks it Faulted
Fault(c) ==
    /\ ~panicked
    /\ state[c] = "Open"
    /\ state' = [state EXCEPT ![c] = "Faulted"]
    /\ Record("fault", c, 0, "Faulted")
    /\ UNCHANGED <<bdev, desc, bdev_handle, claim, wlog, disk, nexusVars, panicked>>

\* ------------------------------------------------------------------ on-disk label

\* bdev.block_len() and bdev.num_blocks() of the devices
BlockSize == 512
DevBlocks == 5
LastBlock == DevBlocks - 1
Lbas == 0 .. LastBlock

\* 0xffff_ffff, the sector count of a protective MBR that covers the whole
\* disk, as the 32-bit pattern it is
WholeDisk == -1

\* the content of a block: anything, a protective MBR, a GPT header or a
\* partition table (the entries are named, not spelled out)
Garbage == [kind |-> "garbage"]
MbrBlock(num_sectors) == [kind |-> "mbr", num_sectors |-> num_sectors]
HeaderBlock(guid, lba_self, lba_alt, lba_end, lba_table, table_crc, entry_size, num_entries) ==
    [kind |-> "header", guid |-> guid, lba_self |-> lba_self, lba_alt |-> lba_alt,
     lba_start |-> 3, lba_end |-> lba_end, lba_table |-> lba_table,
     table_crc |-> table_crc, entry_size |-> entry_size, num_entries |-> num_entries]
TableBlock(entries) == [kind |-> "table", entries |-> entries]

BlankDisk == [l \in Lbas |-> Garbage]

\* the first `len` partition entries of a table
Partitions(entries, len) == [entries |-> IF len = 0 THEN "" ELSE entries, len |-> len]

\* Pmbr::from_slice, GPTHeader::from_slice: whether the bytes parse
Pmbr_from_slice(b) == b.kind = "mbr"
GPTHeader_from_slice(b) == b.kind = "header"

\* the bytes of one partition entry
EntryBytes == 128

\* GptEntry::from_slice(buf, parts): the first `parts` entries, or none when
\* the bytes do not parse or the buffer does not hold that many entries
GptEntry_from_slice(b, buflen, parts) ==
    IF b.kind = "table" /\ parts * EntryBytes <= buflen
    THEN <<Partitions(b.entries, parts)>>
    ELSE <<>>

\* GptEntry::checksum: the CRC-32 of the entries
Checksum(partitions) == <<"crc32", partitions.entries, partitions.len>>

\* a well-formed label with two partition entries: NexusLabel and, block by
\* block, its LabelData
Label(guid, entries) ==
    [mbr |-> MbrBlock(WholeDisk),
     primary |-> HeaderBlock(guid, 1, LastBlock, LastBlock - 2, 2,
                             Checksum(Partitions(entries, 2)), EntryBytes, 2),
     secondary |-> HeaderBlock(guid, LastBlock, 1, LastBlock - 2, LastBlock - 1,
                               Checksum(Partitions(entries, 2)), EntryBytes, 2),
     table |-> TableBlock(entries)]

Labels == {Label("g1", "t1"), Label("g2", "t2")}

\* ------------------------------------------------------------------ write_label

\* the five writes of write_label, in program order: the LabelData buffer
\* written and the label field that gives its LBA
WriteOrder == <<
    [buf |-> "mbr",       region |-> "mbr"],
    [buf |-> "primary",   region |-> "primary.lba_self"],
    [buf |-> "table",     region |-> "primary.lba_table"],
    [buf |-> "table",     region |-> "secondary.lba_table"],
    [buf |-> "secondary", region |-> "secondary.lba_self"] >>

NumWrites == Len(WriteOrder)

\* write_at: InvalidDescriptor without an I/O handle, else the device's answer
WriteAt(c, ok) ==
    IF bdev_handle[c] = None THEN "InvalidDescriptor"
    ELSE IF ok THEN "Ok" ELSE "WriteError"

\* a write_label that issues all its writes whatever their results
WritesAll(c, failAt) == NumWrites

\* the number of writes write_label issues when the failAt-th write is the
\* first to fail (0: none fails): each `?` returns at the first error
WritesUntil(c, failAt) ==
    IF WriteAt(c, failAt # 1) # "Ok" THEN 1
    ELSE IF failAt = 0 THEN NumWrites ELSE failAt

\* the LabelData buffer `buf` of a label, and the LBA a label gives for `region`
Buf(label, buf) ==
    IF buf = "mbr" THEN label.mbr
    ELSE IF buf = "primary" THEN label.primary
    ELSE IF buf = "secondary" THEN label.secondary
    ELSE label.table

Lba(label, region) ==
    IF region = "mbr" THEN 0
    ELSE IF region = "primary.lba_self" THEN label.primary.lba_self
    ELSE IF region = "primary.lba_table" THEN label.primary.lba_table
    ELSE IF region = "secondary.lba_table" THEN label.secondary.lba_table
    ELSE label.secondary.lba_self

\* a write_label whose writes never reach the device
WrittenNowhere(blocks, label, k) == blocks

\* the blocks of a device after the first k writes of write_label succeeded
RECURSIVE Written(_, _, _)
Written(blocks, label, k) ==
    IF k = 0 THEN blocks
    ELSE [Written(blocks, label, k - 1) EXCEPT
            ![Lba(label, WriteOrder[k].region)] = Buf(label, WriteOrder[k].buf)]

\* NexusChild::write_label
WriteLabel(c, label, failAt) ==
    LET n == WritesUntil(c, failAt)
        res(i) == WriteAt(c, failAt # i)
        done == IF res(n) = "Ok" THEN n ELSE n - 1
    IN  /\ ~panicked
        /\ wlog' = [i \in 1 .. n |->
                      [buf |-> WriteOrder[i].buf, region |-> WriteOrder[i].region,
                       lba |-> Lba(label, WriteOrder[i].region),
                       data |-> Buf(label, WriteOrder[i].buf),
                       result |-> res(i)]]
        /\ disk' = IF done = 0 THEN disk
                   ELSE [disk EXCEPT ![bdev[c]] = Written(disk[bdev[c]], label, done)]
        /\ Record("write_label", c, 0, res(n))
        /\ UNCHANGED <<state, bdev, desc, bdev_handle, claim, nexusVars, panicked>>

\* ------------------------------------------------------------------ probe_label

can_rwAlsoConfigInvalid(st) == st = "Open" \/ st = "Faulted" \/ st = "ConfigInvalid"

\* NexusChild::can_rw
can_rw(st) == st = "Open" \/ st = "Faulted"

\* u32 multiplication, computed on 16-bit limbs: the product modulo 2^32 and
\* whether the full product needed more than 32 bits
Limb == 65536

MulU32(a, b) ==
    LET ah == a \div Limb
        al == a % Limb
        bh == b \div Limb
        bl == b % Limb
        low == al * bl
        mid == ah * bl + al * bh + low \div Limb
    IN  [value |-> (mid % Limb) * Limb + (low % Limb),
         overflow |-> ah * bh > 0 \/ mid >= Limb]

\* what can go wrong outside the device's content: an allocation or a read
ProbeFaults == {"none", "alloc_label", "read_mbr", "read_primary", "read_secondary",
                "alloc_table", "read_table"}

\* one read_at: the block it starts at, the length of its buffer in blocks
ReadAt(lba, blocks, ok) == [call |-> "read_at", ok |-> ok, lba |-> lba, blocks |-> blocks]

GuidsDifferNever(primary, secondary) == FALSE

\* the GUID cross-check of the two headers
GuidsDiffer(primary, secondary) == primary.guid # secondary.guid

StoredCrcsDifferNever(primary, secondary) == FALSE

\* the cross-check of the two headers' stored partition table checksums
StoredCrcsDiffer(primary, secondary) == primary.table_crc # secondary.table_crc

ProbeResult(result, calls) == [result |-> result, calls |-> calls, out |-> <<>>]
ProbePanic(calls) == ProbeResult("panic", calls)

\* NexusChild::probe_label: its result, the reads it issued and the label it
\* returned.  overflowChecks is the build's choice for integer overflow:
\* panic (debug) or wrap (release).
ProbeOutcome(c, fail, overflowChecks) ==
    LET blocks == disk[bdev[c]]
        block_size == BlockSize
        mbr == blocks[0]
        primary == blocks[1]
        secondary == blocks[DevBlocks - 1]
        r0 == <<ReadAt(0, 1, fail # "read_mbr")>>
        r1 == r0 \o <<ReadAt(1, 1, fail # "read_primary")>>
        r2 == r1 \o <<ReadAt(DevBlocks - 1, 1, fail # "read_secondary")>>
        product == MulU32(primary.entry_size, primary.num_entries)
        num_blocks == product.value \div block_size + 1
        size == MulU32(num_blocks, block_size)
        r3 == r2 \o <<ReadAt(primary.lba_table, size.value \div block_size,
                             fail # "read_table")>>
        parsed == GptEntry_from_slice(blocks[primary.lba_table], size.value,
                                      primary.num_entries)
        partitions == parsed[1]
    IN  IF ~can_rw(state[c]) THEN ProbeResult("ChildReadOnly", <<>>)
        ELSE IF bdev[c] = NoBdev \/ bdev_handle[c] = None
            THEN ProbeResult("ChildInvalid", <<>>)
        ELSE IF fail = "alloc_label" THEN ProbeResult("LabelAlloc", <<>>)
        ELSE IF fail = "read_mbr" THEN ProbeResult("LabelRead", r0)
        ELSE IF ~Pmbr_from_slice(mbr) THEN ProbeResult("LabelInvalid", r0)
        ELSE IF fail = "read_primary" THEN ProbeResult("LabelRead", r1)
        ELSE IF ~GPTHeader_from_slice(primary) THEN ProbeResult("LabelInvalid", r1)
        ELSE IF mbr.num_sectors # WholeDisk /\ mbr.num_sectors # primary.lba_alt
            THEN ProbeResult("LabelInvalid", r1)
        ELSE IF fail = "read_secondary" THEN ProbeResult("LabelRead", r2)
        ELSE IF ~GPTHeader_from_slice(secondary) THEN ProbeResult("LabelInvalid", r2)
        ELSE IF GuidsDiffer(primary, secondary) THEN ProbeResult("LabelInvalid", r2)
        ELSE IF primary.lba_start # secondary.lba_start
                \/ primary.lba_end # secondary.lba_end
            THEN ProbeResult("LabelInvalid", r2)
        ELSE IF StoredCrcsDiffer(primary, secondary)
            THEN ProbeResult("LabelInvalid", r2)
        ELSE IF overflowChecks /\ (product.overflow \/ size.overflow)
            THEN ProbePanic(r2)
        ELSE IF fail = "alloc_table" THEN ProbeResult("PartitionTableAlloc", r2)
        ELSE IF fail = "read_table" THEN ProbeResult("PartitionTableRead", r3)
        ELSE IF parsed = <<>> THEN ProbeResult("InvalidPartitionTable", r3)
        ELSE IF Checksum(partitions) # primary.table_crc
            THEN ProbeResult("PartitionTableChecksum", r3)
        ELSE IF partitions.len < 2 THEN ProbePanic(r3)
        ELSE [result |-> "Ok", calls |-> r3,
              out |-> <<[mbr |-> mbr, primary |-> primary, secondary |-> secondary,
                         partitions |-> Partitions(partitions.entries, 2)]>>]

ProbeLabel(c, fail, overflowChecks) ==
    LET o == ProbeOutcome(c, fail, overflowChecks)
    IN  /\ ~panicked
        /\ RecordFull("probe_label", c, 0, o.result, o.calls, o.out)
        /\ panicked' = (o.result = "panic")
        /\ UNCHANGED <<state, bdev, desc, bdev_handle, claim, wlog, disk, nexusVars>>

\* ------------------------------------------------------------------ iSCSI target subsystem

ISCSI_PORTAL_GROUP_FE == 2
ISCSI_PORTAL_GROUP_BE == 0
ISCSI_INITIATOR_GROUP == 0

\* the fields of the nexus that the iSCSI subsystem leaves alone
shareVars == <<share_handle, share_protocol, nbd_disk, iscsi_target, bdevs, last, prev>>

\* the registry of portal groups and initiator groups
Registry == [portal_grps |-> portal_grps, init_grps |-> init_grps]
NoRegistry == [portal_grps |-> {}, init_grps |-> {}]

\* the step of init_portal_group that fails, if any
PgFaults == {"none", "create", "portal", "open", "register"}

\* init_portal_group: its result and the registered portal groups after it;
\* spdk_iscsi_portal_grp_register refuses a tag that is registered already
init_portal_group(grps, pg_no, fault) ==
    IF fault = "create" THEN [result |-> "CreatePortalGroup", portal_grps |-> grps]
    ELSE IF fault = "portal" THEN [result |-> "CreatePortal", portal_grps |-> grps]
    ELSE IF fault = "open" THEN [result |-> "AddPortal", portal_grps |-> grps]
    ELSE IF fault = "register" \/ pg_no \in grps
        THEN [result |-> "RegisterPortalGroup", portal_grps |-> grps]
    ELSE [result |-> "Ok", portal_grps |-> grps \cup {pg_no}]

\* target::iscsi::fini: unregisters initiator group 0 and portal groups 0 and 1
fini(reg) ==
    [portal_grps |-> reg.portal_grps \ {0, 1}, init_grps |-> reg.init_grps \ {0}]

\* target::iscsi::init: its result and the registry after it
init(reg, f_be, f_fe, igOk) ==
    LET be == init_portal_group(reg.portal_grps, ISCSI_PORTAL_GROUP_BE, f_be)
        fe == init_portal_group(be.portal_grps, ISCSI_PORTAL_GROUP_FE, f_fe)
        both == [reg EXCEPT !.portal_grps = fe.portal_grps]
    IN  IF be.result # "Ok" THEN [result |-> be.result, reg |-> reg]
        ELSE IF fe.result # "Ok"
            THEN [result |-> fe.result, reg |-> [reg EXCEPT !.portal_grps = be.portal_grps]]
        ELSE IF ~igOk \/ ISCSI_INITIATOR_GROUP \in reg.init_grps
            THEN [result |-> "CreateInitiatorGroup", reg |-> fini(both)]
        ELSE [result |-> "Ok",
              reg |-> [both EXCEPT !.init_grps = @ \cup {ISCSI_INITIATOR_GROUP}]]

NoIscsiOp == [op |-> "none", result |-> None, pre |-> NoRegistry]

RecordIscsi(op, result) ==
    /\ iprev' = [op |-> ilast.op, result |-> ilast.result]
    /\ ilast' = [op |-> op, result |-> result, pre |-> Registry]

\* a call of target::iscsi::init
IscsiInit(f_be, f_fe, igOk) ==
    LET o == init(Registry, f_be, f_fe, igOk)
    IN  /\ ~panicked
        /\ portal_grps' = o.reg.portal_grps
        /\ init_grps' = o.reg.init_grps
        /\ RecordIscsi("init", o.result)
        /\ UNCHANGED <<tgt_nodes, pc, signal, shareVars, childVars, panicked>>

\* a call of target::iscsi::fini
IscsiFini ==
    /\ ~panicked
    /\ portal_grps' = fini(Registry).portal_grps
    /\ init_grps' = fini(Registry).init_grps
    /\ RecordIscsi("fini", "Ok")
    /\ UNCHANGED <<tgt_nodes, pc, signal, shareVars, childVars, panicked>>

\* The futures of nexus_iscsi::start (awaited by IscsiTarget::create) and of
\* target::iscsi::unshare, one of each per bdev name.  A future is created by
\* the call, runs up to its await when it is first polled, and completes at a
\* later poll once its channel holds a value.
Names == {"a", "b"}
Tasks == [op : {"start", "unshare"}, name : Names]

\* the call of the async fn: creates the future, runs nothing
Spawn(t) ==
    /\ ~panicked
    /\ pc[t] = "idle"
    /\ pc' = [pc EXCEPT ![t] = "created"]
    /\ UNCHANGED <<portal_grps, init_grps, tgt_nodes, signal, ilast, iprev,
                   shareVars, childVars, panicked>>

\* first poll of start: creates the channel, calls init and ignores its
\* error, constructs the target node and ignores a null result, then awaits
\* the receiver; the sender stays a local of the future (the call that would
\* hand it to a callback is commented out)
StartBody(t, f_be, f_fe, igOk, tgtOk) ==
    LET o == init(Registry, f_be, f_fe, igOk)
    IN  /\ signal' = [signal EXCEPT ![t] = "held"]
        /\ portal_grps' = o.reg.portal_grps
        /\ init_grps' = o.reg.init_grps
        /\ RecordIscsi("init", o.result)
        /\ tgt_nodes' = IF tgtOk THEN tgt_nodes \cup {t.name} ELSE tgt_nodes
        /\ pc' = [pc EXCEPT ![t] = "parked"]

\* first poll of unshare: creates the channel, hands the sender to
\* spdk_iscsi_shutdown_tgt_node_by_name with done_errno_cb, then awaits the
\* receiver
UnshareBody(t) ==
    /\ signal' = [signal EXCEPT ![t] = "registered"]
    /\ pc' = [pc EXCEPT ![t] = "parked"]
    /\ UNCHANGED <<portal_grps, init_grps, tgt_nodes, ilast, iprev>>

\* a later poll: the receiver yields the value sent, if there is one
Resume(t) ==
    /\ pc' = IF signal[t] \in {"sent_ok", "sent_err"}
             THEN [pc EXCEPT ![t] = "done"] ELSE pc
    /\ UNCHANGED <<portal_grps, init_grps, tgt_nodes, signal, ilast, iprev>>

Poll(t, f_be, f_fe, igOk, tgtOk) ==
    /\ ~panicked
    /\ pc[t] \in {"created", "parked"}
    /\ IF pc[t] = "parked" THEN Resume(t)
       ELSE IF t.op = "start" THEN StartBody(t, f_be, f_fe, igOk, tgtOk)
       ELSE UnshareBody(t)
    /\ UNCHANGED <<shareVars, childVars, panicked>>

\* a poll by the executor; only the body of start has outcomes to choose
PollSome(t) ==
    IF pc[t] = "created" /\ t.op = "start"
    THEN \E f_be \in PgFaults, f_fe \in PgFaults, igOk \in Booleans,
            tgtOk \in Booleans : Poll(t, f_be, f_fe, igOk, tgtOk)
    ELSE Poll(t, "none", "none", TRUE, TRUE)

\* done_errno_cb: the callback a registered sender was handed to sends the
\* errno of the operation, once
DoneErrnoCb(t, ok) ==
    /\ ~panicked
    /\ signal[t] = "registered"
    /\ signal' = [signal EXCEPT ![t] = IF ok /\ t.name \in tgt_nodes
                                        THEN "sent_ok" ELSE "sent_err"]
    /\ tgt_nodes' = IF ok THEN tgt_nodes \ {t.name} ELSE tgt_nodes
    /\ UNCHANGED <<portal_grps, init_grps, pc, ilast, iprev, shareVars, childVars,
                   panicked>>

\* ------------------------------------------------------------------ specifications

InitNexus ==
    /\ share_handle = None
    /\ share_protocol = None
    /\ nbd_disk = FALSE
    /\ iscsi_target = FALSE
    /\ bdevs = {NexusName}
    /\ last = NoOp
    /\ prev = NoOp
    /\ portal_grps = {}
    /\ init_grps = {}
    /\ tgt_nodes = {}
    /\ pc = [t \in Tasks |-> "idle"]
    /\ signal = [t \in Tasks |-> "none"]
    /\ ilast = NoIscsiOp
    /\ iprev = [op |-> "none", result |-> None]

\* NexusChild::new
InitChildrenOn(bindings, disks) ==
    /\ bdev \in bindings
    /\ state = [c \in Children |-> "Init"]
    /\ desc = [c \in Children |-> None]
    /\ bdev_handle = [c \in Children |-> None]
    /\ claim = [d \in Devices |-> NoChild]
    /\ clast = NoChildOp
    /\ cprev = [op |-> "none", child |-> NoChild]
    /\ wlog = <<>>
    /\ disk \in disks

\* the same, on blank devices
InitChildren(bindings) == InitChildrenOn(bindings, {[d \in Devices |-> BlankDisk]})

\* a nexus with share and unshare calls; its children are left alone
InitShare ==
    /\ InitNexus
    /\ InitChildren({[c \in Children |-> NoBdev]})
    /\ panicked = FALSE

NextShare ==
    \/ \E proto \in ShareProtocolNexus, key \in Keys, cryptoOk \in Booleans,
          backendOk \in Booleans : Share(proto, key, cryptoOk, backendOk)
    \/ \E destroyOk \in Booleans, deleteOk \in Booleans : Unshare(destroyOk, deleteOk)

SpecShare == InitShare /\ [][NextShare]_vars

\* the same nexus, with get_share_path calls in between
NextSharePath ==
    \/ \E proto \in ShareProtocolNexus, key \in Keys, cryptoOk \in Booleans,
          backendOk \in Booleans : Share(proto, key, cryptoOk, backendOk)
    \/ \E destroyOk \in Booleans, deleteOk \in Booleans : Unshare(destroyOk, deleteOk)
    \/ GetSharePath

SpecSharePath == InitShare /\ [][NextSharePath]_vars

\* the iSCSI target subsystem and the futures that use it; the executor polls
\* every future that can make progress, and SPDK calls back every callback it
\* was given
NextIscsi ==
    \/ \E f_be \in PgFaults, f_fe \in PgFaults, igOk \in Booleans :
          IscsiInit(f_be, f_fe, igOk)
    \/ IscsiFini
    \/ \E t \in Tasks : Spawn(t)
    \/ \E t \in Tasks : PollSome(t)
    \/ \E t \in Tasks, ok \in Booleans : DoneErrnoCb(t, ok)

CallbackSome(t) == \E ok \in Booleans : DoneErrnoCb(t, ok)

SpecIscsi ==
    /\ InitShare
    /\ [][NextIscsi]_vars
    /\ \A t \in Tasks : WF_vars(PollSome(t)) /\ WF_vars(CallbackSome(t))

\* children constructed with or without a device, several may share one
InitChild ==
    /\ InitNexus
    /\ InitChildren([Children -> Devices \cup {NoBdev}])
    /\ panicked = FALSE

NextChild ==
    \/ \E c \in Children, parent_size \in ParentSizes, openOk \in Booleans,
          handleOk \in Booleans : Open(c, parent_size, openOk, handleOk)
    \/ \E c \in Children : Close(c)
    \/ \E c \in Children : Fault(c)
    \/ \E c \in Children, destroyOk \in Booleans : Destroy(c, destroyOk)

SpecChild == InitChild /\ [][NextChild]_vars

\* the same children with open, close and get_descriptor calls only
NextOpenClose ==
    \/ \E c \in Children, parent_size \in ParentSizes, openOk \in Booleans,
          handleOk \in Booleans : Open(c, parent_size, openOk, handleOk)
    \/ \E c \in Children : Close(c)
    \/ \E c \in Children : GetDescriptor(c)

SpecOpenClose == InitChild /\ [][NextOpenClose]_vars

\* one child bound to a device, with label writes
LabelChild == CHOOSE c \in Children : TRUE

InitLabel ==
    /\ InitNexus
    /\ InitChildren({[c \in Children |-> IF c = LabelChild THEN "bdev_b" ELSE NoBdev]})
    /\ panicked = FALSE

NextLabel ==
    \/ \E parent_size \in ParentSizes, openOk \in Booleans, handleOk \in Booleans :
          Open(LabelChild, parent_size, openOk, handleOk)
    \/ Close(LabelChild)
    \/ Fault(LabelChild)
    \/ \E label \in Labels, failAt \in 0 .. NumWrites :
          WriteLabel(LabelChild, label, failAt)
    \/ \E fail \in ProbeFaults, overflowChecks \in Booleans :
          ProbeLabel(LabelChild, fail, overflowChecks)

SpecLabel == InitLabel /\ [][NextLabel]_vars

\* Probing one child whose device holds arbitrary content: every combination
\* of an MBR, a primary header, a partition table and a secondary header,
\* each of them possibly garbage.
EntrySizes == {0, EntryBytes, Limb}
EntryCounts == {0, 1, 2, 4, Limb}
Guids == {"g1", "g2"}
Tables == {"t1", "t2"}

Mbrs == {Garbage, MbrBlock(WholeDisk), MbrBlock(LastBlock), MbrBlock(1)}

Primaries ==
    {Garbage} \cup
    {HeaderBlock("g1", 1, LastBlock, LastBlock - 2, 2,
                 Checksum(Partitions(t, n)), es, n) :
        t \in Tables, es \in EntrySizes, n \in EntryCounts}

\* a secondary header agrees with the primary or differs from it in its GUID,
\* its last usable LBA or its stored checksum (each header stores the checksum
\* of one of the tables, of the primary's number of entries)
Secondaries(primary) ==
    {Garbage} \cup
    {HeaderBlock(g, LastBlock, 1, e, LastBlock - 1, crc, EntryBytes, 2) :
        g \in Guids, e \in {LastBlock - 2, LastBlock - 3},
        crc \in {Checksum(Partitions(t, IF primary.kind = "header"
                                        THEN primary.num_entries ELSE 2)) :
                   t \in Tables}}

Contents ==
    UNION {{[l \in Lbas |-> CASE l = 0 -> m
                               [] l = 1 -> p
                               [] l = 2 -> t
                               [] l = LastBlock -> s
                               [] OTHER -> Garbage] :
              m \in Mbrs, t \in {Garbage} \cup {TableBlock(e) : e \in Tables},
              s \in Secondaries(p)} : p \in Primaries}

InitProbe ==
    /\ InitNexus
    /\ InitChildrenOn({[c \in Children |-> IF c = LabelChild THEN "bdev_a" ELSE NoBdev]},
                      {[d \in Devices |-> IF d = "bdev_a" THEN blocks ELSE BlankDisk] :
                         blocks \in Contents})
    /\ panicked = FALSE

NextProbe ==
    \/ \E parent_size \in ParentSizes, openOk \in Booleans, handleOk \in Booleans :
          Open(LabelChild, parent_size, openOk, handleOk)
    \/ Close(LabelChild)
    \/ Fault(LabelChild)
    \/ \E fail \in ProbeFaults, overflowChecks \in Booleans :
          ProbeLabel(LabelChild, fail, overflowChecks)

SpecProbe == InitProbe /\ [][NextProbe]_vars

\* ------------------------------------------------------------------ claims

\* how many times an operation issued the collaborator call `name`
Count(calls, name) == Cardinality({i \in DOMAIN calls : calls[i].call = name})

BackendCreate == {"NbdDisk::create", "NexusIscsiTarget::create"}

\* the operation's backend creation call succeeded / failed
BackendCreated(calls) ==
    \E i \in DOMAIN calls : calls[i].call \in BackendCreate /\ calls[i].ok
BackendFailed(calls) ==
    \E i \in DOMAIN calls : calls[i].call \in BackendCreate /\ ~calls[i].ok

\* C1: in every state reachable by share and unshare calls, failed ones
\* included, share_handle is set if and only if share_protocol is set.
C1_HandleIffProtocol == (share_handle # None) <=> (share_protocol # None)

ChildErrors == {"ChildNotClosed", "OpenWithoutBdev", "ChildTooSmall", "OpenChild",
                "HandleCreate"}

\* C2: open on an Init or Closed child with a device fails with ChildTooSmall
\* and sets ConfigInvalid iff parent_size exceeds the child's capacity; every
\* other failure of open returns an error and leaves the state as it was.
C2_OpenFailures ==
    clast.op = "open" =>
        /\ (clast.pre.state \in {"Init", "Closed"} /\ clast.pre.bdev # NoBdev) =>
              ((clast.result = "ChildTooSmall" /\ state[clast.child] = "ConfigInvalid")
                 <=> clast.parent_size > size_in_bytes(clast.pre.bdev))
        /\ clast.result \notin {"Ok", "ChildTooSmall"} =>
              /\ clast.result \in ChildErrors
              /\ state[clast.child] = clast.pre.state

\* C3: a child becomes Open only by a successful open issued in Init or
\* Closed; open issued in Open, Faulted or ConfigInvalid fails with
\* ChildNotClosed and leaves state, descriptor and I/O handle unchanged.
C3_OpenOnlyFromInitOrClosed ==
    [][\A c \in Children :
        /\ (state'[c] = "Open" /\ state[c] # "Open") =>
              /\ state[c] \in {"Init", "Closed"}
              /\ clast'.op = "open" /\ clast'.child = c /\ clast'.result = "Ok"
        /\ (clast'.op = "open" /\ clast'.child = c
              /\ state[c] \in {"Open", "Faulted", "ConfigInvalid"}) =>
              /\ clast'.result = "ChildNotClosed"
              /\ state'[c] = state[c]
              /\ desc'[c] = desc[c]
              /\ bdev_handle'[c] = bdev_handle[c]]_vars

\* open was retried on a ConfigInvalid child and refused
C3_Witness ==
    /\ clast.op = "open" /\ clast.result = "ChildNotClosed"
    /\ clast.pre.state = "ConfigInvalid"
    /\ state[clast.child] = "ConfigInvalid"

\* C4: close can be called in every child state, returns Closed, leaves no
\* descriptor and no I/O handle, keeps the device binding, and a second close
\* right after the first leaves the child exactly as the first did.
C4_CloseTotalIdempotent ==
    /\ \A c \in Children : ~panicked => ENABLED Close(c)
    /\ clast.op = "close" =>
        LET c == clast.child
        IN  /\ clast.result = "Closed"
            /\ state[c] = "Closed"
            /\ desc[c] = None
            /\ bdev_handle[c] = None
            /\ bdev[c] = clast.pre.bdev
            /\ (cprev.op = "close" /\ cprev.child = c) => Child(c) = clast.pre

\* a child that had been opened was closed twice in a row
C4_Witness ==
    /\ clast.op = "close" /\ cprev.op = "close" /\ cprev.child = clast.child
    /\ clast.pre.bdev # NoBdev
    /\ claim[clast.pre.bdev] = NoChild
    /\ \E c \in Children : c # clast.child /\ state[c] \in {"Faulted", "ConfigInvalid"}

\* C5: of the children bound to one device at most one is Open at any time.
C5_AtMostOneOpen ==
    \A d \in Devices : Cardinality({c \in Children : bdev[c] = d /\ state[c] = "Open"}) <= 1

\* the regions written by the last write_label, in the order they were written
Regions == [i \in DOMAIN wlog |-> wlog[i].region]

\* C6: write_label writes the protective MBR, the primary table, the secondary
\* table, the secondary header and the primary header, in that order.
C6_TablesBeforeHeaders ==
    (clast.op = "write_label" /\ clast.result = "Ok") =>
        Regions = <<"mbr", "primary.lba_table", "secondary.lba_table",
                    "secondary.lba_self", "primary.lba_self">>

\* C7: share on a nexus that has an active export returns AlreadyShared, does
\* not abort the process, changes nothing and creates nothing.
C7_AlreadySharedIsAnError ==
    (last.op = "share"
        /\ (last.pre.share_handle # None \/ last.pre.share_protocol # None)) =>
        /\ last.result = "AlreadyShared"
        /\ ~panicked
        /\ NexusState = last.pre
        /\ last.calls = <<>>

\* C8: share with NvmfFe on a nexus that is not shared fails with
\* InvalidShareProtocol, leaves share_handle and share_protocol None and
\* issues no creation at all, with or without a key.
C8_NvmfCreatesNothing ==
    (last.op = "share" /\ last.proto = "NvmfFe" /\ last.pre = Unshared) =>
        /\ last.result = "InvalidShareProtocol"
        /\ NexusState = Unshared
        /\ last.calls = <<>>

\* C9: share changes share_handle and share_protocol if and only if the
\* backend was created; then share_handle is the crypto bdev's name when a key
\* was given and the nexus's name otherwise, share_protocol is the protocol
\* asked for and the backend handle is kept; when the backend creation fails
\* share returns its error and both fields are None.
C9_RecordedIffBackendCreated ==
    last.op = "share" =>
        /\ (share_handle # last.pre.share_handle) <=> BackendCreated(last.calls)
        /\ (share_protocol # last.pre.share_protocol) <=> BackendCreated(last.calls)
        /\ BackendCreated(last.calls) =>
              /\ last.result = "Ok"
              /\ share_handle = IF last.key # NoKey THEN CryptoName ELSE NexusName
              /\ share_protocol = last.proto
              /\ last.proto = "NbdFe" => nbd_disk
              /\ last.proto = "IscsiFe" => iscsi_target
        /\ BackendFailed(last.calls) =>
              /\ last.result \in {"ShareNbdNexus", "ShareIscsiNexus"}
              /\ share_handle = None
              /\ share_protocol = None

\* a share with a key succeeded over iSCSI after one whose backend failed
C9_Witness ==
    /\ last.op = "share" /\ last.result = "Ok" /\ last.key # NoKey
    /\ last.proto = "IscsiFe" /\ share_handle = CryptoName /\ iscsi_target
    /\ prev.op = "unshare"

\* a share failed in the backend creation
C9_WitnessFailed ==
    /\ last.op = "share" /\ BackendFailed(last.calls) /\ share_handle = None

\* C10: a successful share followed by unshare leaves the nexus Unshared, and
\* the two calls issue one crypto creation and one crypto destruction when a
\* key was given and none of either otherwise.
C10_ShareUnshareRoundTrip ==
    (last.op = "unshare" /\ prev.op = "share" /\ prev.result = "Ok") =>
        LET n == IF prev.key # NoKey THEN 1 ELSE 0
        IN  /\ NexusState = Unshared
            /\ Count(prev.calls \o last.calls, "create_crypto_disk") = n
            /\ Count(prev.calls \o last.calls, "delete_crypto_disk") = n

\* C11: at most one backend handle is populated, one is populated exactly when
\* share_protocol is set, and it is the one share_protocol names.
C11_OneBackendHandle ==
    /\ ~(nbd_disk /\ iscsi_target)
    /\ (nbd_disk \/ iscsi_target) <=> (share_protocol # None)
    /\ nbd_disk <=> (share_protocol = "NbdFe")
    /\ iscsi_target <=> (share_protocol = "IscsiFe")

\* the operation issued create_crypto_disk and it failed
CryptoCreateFailed(calls) ==
    \E i \in DOMAIN calls : calls[i].call = "create_crypto_disk" /\ ~calls[i].ok

\* C12: a share whose crypto bdev creation fails returns CreateCryptoBdev,
\* attempts no backend creation and leaves share_handle, share_protocol and
\* the backend handles None.
C12_CryptoFailureAbortsShare ==
    (last.op = "share" /\ CryptoCreateFailed(last.calls)) =>
        /\ last.result = "CreateCryptoBdev"
        /\ \A i \in DOMAIN last.calls : last.calls[i].call \notin BackendCreate
        /\ NexusState = last.pre
        /\ NexusState = Unshared

\* a share with a key failed in create_crypto_disk, for a reason other than a
\* crypto bdev left behind
C12_Witness ==
    /\ last.op = "share" /\ last.key # NoKey /\ CryptoCreateFailed(last.calls)
    /\ last.proto = "IscsiFe"
    /\ CryptoName \notin bdevs

\* the unshare's iSCSI teardown failed
IscsiDestroyFailed(calls) ==
    \E i \in DOMAIN calls : calls[i].call = "NexusIscsiTarget::destroy" /\ ~calls[i].ok

\* C13: when the iSCSI teardown fails unshare goes on: the crypto bdev, when
\* there is one, is asked to be destroyed after the teardown, the export state
\* is cleared, and unshare returns an error only when the crypto destruction
\* fails, which is DestroyCryptoBdev.
C13_IscsiTeardownFailureGoesOn ==
    (last.op = "unshare" /\ IscsiDestroyFailed(last.calls)) =>
        LET deleted == Count(last.calls, "delete_crypto_disk")
            failed == \E i \in DOMAIN last.calls :
                         last.calls[i].call = "delete_crypto_disk" /\ ~last.calls[i].ok
        IN  /\ deleted = IF last.pre.share_handle = CryptoName THEN 1 ELSE 0
            /\ deleted = 1 => last.calls[Len(last.calls)].call = "delete_crypto_disk"
            /\ NexusState = Unshared
            /\ last.result \in {"Ok", "DestroyCryptoBdev"}
            /\ (last.result = "DestroyCryptoBdev") <=> failed

\* C14: unshare on a nexus whose share_protocol is None fails with NotShared,
\* issues no teardown and changes nothing.
C14_UnshareNotShared ==
    (last.op = "unshare" /\ last.pre.share_protocol = None) =>
        /\ last.result = "NotShared"
        /\ last.calls = <<>>
        /\ NexusState = last.pre
        /\ ~panicked

\* unshare was called again right after an unshare that succeeded
C14_Witness ==
    /\ last.op = "unshare" /\ last.pre.share_protocol = None
    /\ prev.op = "unshare" /\ prev.result = "Ok"
    /\ last.result = "NotShared"

\* C15: after any sequence of open and close calls a child holds a descriptor
\* and an I/O handle if and only if it is Open, and get_descriptor succeeds
\* exactly when the child is Open and fails with InvalidDescriptor otherwise.
C15_DescriptorIffOpen ==
    ~panicked =>
        /\ \A c \in Children :
              /\ (desc[c] # None) <=> (state[c] = "Open")
              /\ (bdev_handle[c] # None) <=> (state[c] = "Open")
        /\ clast.op = "get_descriptor" =>
              /\ (clast.result = "Ok") <=> (state[clast.child] = "Open")
              /\ clast.result \in {"Ok", "InvalidDescriptor"}
              /\ clast.result = "Ok" => clast.out = <<bdev[clast.child]>>

\* get_descriptor failed on a child right after its close, another child
\* being Open
C15_Witness ==
    /\ clast.op = "get_descriptor" /\ clast.result = "InvalidDescriptor"
    /\ cprev.op = "close" /\ cprev.child = clast.child
    /\ \E c \in Children : state[c] = "Open" /\ desc[c] # None

\* C20: destroy calls the device-destroy collaborator only for a Closed child
\* with a device and then returns its result; for a Closed child without a
\* device it returns success without the call; in any other state it is a
\* fatal assertion failure and nothing is destroyed.
C20_DestroyOnlyWhenClosed ==
    clast.op = "destroy" =>
        LET called == clast.calls # <<>>
        IN  /\ called <=> (clast.pre.state = "Closed" /\ clast.pre.bdev # NoBdev)
            /\ called =>
                  /\ Len(clast.calls) = 1
                  /\ clast.calls[1].call = "bdev_destroy"
                  /\ clast.result = IF clast.calls[1].ok THEN "Ok" ELSE "BdevCreateDestroy"
                  /\ ~panicked
            /\ (clast.pre.state = "Closed" /\ clast.pre.bdev = NoBdev) =>
                  clast.result = "Ok" /\ ~panicked
            /\ clast.pre.state # "Closed" => clast.result = "panic" /\ panicked
            /\ Child(clast.child) = clast.pre

\* destroy of a Closed child with a device returned the collaborator's error
C20_Witness ==
    /\ clast.op = "destroy" /\ clast.pre.state = "Closed" /\ clast.pre.bdev # NoBdev
    /\ clast.result = "BdevCreateDestroy"
    /\ cprev.op = "close"

\* the blocks of the device the last child operation worked on
ProbedBlocks == disk[clast.pre.bdev]
ProbedMbr == ProbedBlocks[0]
ProbedPrimary == ProbedBlocks[1]
ProbedSecondary == ProbedBlocks[LastBlock]
ReadLbas == [i \in DOMAIN clast.calls |-> clast.calls[i].lba]

\* C16: can_rw holds exactly in the states Open and Faulted; probe_label on a
\* child that cannot be read or written fails with ChildReadOnly and issues
\* no read; and a probe_label that follows an open that failed with
\* ChildTooSmall fails with ChildReadOnly.
C16_ProbeNeedsCanRw ==
    /\ [](clast.op = "probe_label" =>
            /\ (clast.result = "ChildReadOnly")
                  <=> (clast.pre.state \notin {"Open", "Faulted"})
            /\ (clast.result = "ChildReadOnly") <=> ~can_rw(clast.pre.state)
            /\ clast.result = "ChildReadOnly" => clast.calls = <<>>)
    /\ [][(/\ clast.op = "open" /\ clast.result = "ChildTooSmall"
           /\ clast'.op = "probe_label" /\ clast'.child = clast.child)
           => /\ clast.pre.state # "ConfigInvalid"
              /\ clast'.pre.state = "ConfigInvalid"
              /\ clast'.result = "ChildReadOnly"
              /\ clast'.calls = <<>>]_vars

\* a probe_label right after the open that failed with ChildTooSmall
C16_Witness ==
    /\ clast.op = "probe_label" /\ cprev.op = "open" /\ cprev.child = clast.child
    /\ clast.pre.state = "ConfigInvalid"
    /\ clast.result = "ChildReadOnly"

\* both headers parse and carry different GUIDs
GuidMismatch ==
    /\ GPTHeader_from_slice(ProbedPrimary)
    /\ GPTHeader_from_slice(ProbedSecondary)
    /\ ProbedPrimary.guid # ProbedSecondary.guid

\* the protective MBR parses and agrees with the primary header
MbrConsistent ==
    /\ Pmbr_from_slice(ProbedMbr)
    /\ GPTHeader_from_slice(ProbedPrimary)
    /\ ProbedMbr.num_sectors \in {WholeDisk, ProbedPrimary.lba_alt}

\* the results of probe_label that say nothing about the label: the child
\* cannot be read, or an allocation or a read failed
NoVerdict == {"ChildReadOnly", "ChildInvalid", "LabelAlloc", "LabelRead",
              "PartitionTableAlloc", "PartitionTableRead"}

\* C17: when both GPT headers parse and their GUIDs differ, a probe_label
\* that gets as far as judging the label fails with LabelInvalid, and it
\* never reads the partition table: its reads are a prefix of block 0,
\* block 1, last block, and all three when the GUID check is what failed.
C17_GuidMismatchBeforeTable ==
    (clast.op = "probe_label" /\ GuidMismatch) =>
        /\ clast.result \in NoVerdict \cup {"LabelInvalid"}
        /\ clast.result \notin {"PartitionTableAlloc", "PartitionTableRead"}
        /\ \A i \in DOMAIN ReadLbas : ReadLbas[i] = <<0, 1, LastBlock>>[i]
        /\ Len(ReadLbas) <= 3
        /\ (MbrConsistent /\ clast.result = "LabelInvalid")
              => ReadLbas = <<0, 1, LastBlock>>

C17_Witness ==
    /\ clast.op = "probe_label" /\ GuidMismatch /\ MbrConsistent
    /\ clast.result = "LabelInvalid"
    /\ ReadLbas = <<0, 1, LastBlock>>
    /\ \A i \in DOMAIN clast.calls : clast.calls[i].ok

\* the partition entries on the probed device, as the primary header counts them
ProbedPartitions ==
    Partitions(ProbedBlocks[ProbedPrimary.lba_table].entries, ProbedPrimary.num_entries)

\* a label that is valid but for the checksums its headers store: the MBR and
\* both headers parse and agree, and the table holds at least two entries
ValidButForCrc ==
    /\ MbrConsistent
    /\ GPTHeader_from_slice(ProbedSecondary)
    /\ ProbedPrimary.guid = ProbedSecondary.guid
    /\ ProbedPrimary.lba_start = ProbedSecondary.lba_start
    /\ ProbedPrimary.lba_end = ProbedSecondary.lba_end
    /\ ProbedPrimary.entry_size = EntryBytes
    /\ ProbedPrimary.num_entries \in {2, 4}
    /\ ProbedBlocks[ProbedPrimary.lba_table].kind = "table"

PrimaryCrcCorrupt == ProbedPrimary.table_crc # Checksum(ProbedPartitions)
SecondaryCrcCorrupt == ProbedSecondary.table_crc # Checksum(ProbedPartitions)

\* C18, as claimed: on a label that is otherwise valid, a corrupted stored
\* checksum, in the primary header only or in both headers, makes a
\* probe_label that judges the label fail with PartitionTableChecksum.
C18_CorruptCrcIsChecksumError ==
    (/\ clast.op = "probe_label" /\ clast.result \notin NoVerdict
     /\ ValidButForCrc /\ PrimaryCrcCorrupt)
        => clast.result = "PartitionTableChecksum"

\* C18, as the code has it: the same stored checksum, corrupted, in both
\* headers fails with PartitionTableChecksum; a corrupted checksum in one
\* header only makes the headers disagree and fails with LabelInvalid.
C18_CorruptCrcInBothHeaders ==
    (clast.op = "probe_label" /\ clast.result \notin NoVerdict /\ ValidButForCrc) =>
        /\ (PrimaryCrcCorrupt /\ ProbedSecondary.table_crc = ProbedPrimary.table_crc)
              => clast.result = "PartitionTableChecksum"
        /\ (PrimaryCrcCorrupt /\ ~SecondaryCrcCorrupt)
              => clast.result = "LabelInvalid"
        /\ (~PrimaryCrcCorrupt /\ SecondaryCrcCorrupt)
              => clast.result = "LabelInvalid"
        /\ (~PrimaryCrcCorrupt /\ ~SecondaryCrcCorrupt) => clast.result = "Ok"

C18_Witness ==
    /\ clast.op = "probe_label" /\ ValidButForCrc
    /\ PrimaryCrcCorrupt /\ ProbedSecondary.table_crc = ProbedPrimary.table_crc
    /\ clast.result = "PartitionTableChecksum"

\* C19: probe_label does not panic, whatever the device holds: it returns a
\* label or an error.
C19_ProbeNeverPanics ==
    clast.op = "probe_label" => clast.result # "panic"

\* C21: get_share_path returns a path exactly when the nexus is exported over
\* NBD (share handle and protocol NbdFe recorded); it returns nothing on a
\* nexus that is not shared, on one shared over iSCSI, and after the unshare
\* of an NBD export.
C21_SharePathIffNbd ==
    last.op = "get_share_path" =>
        /\ (last.result # None)
              <=> (last.pre.share_handle # None /\ last.pre.share_protocol = "NbdFe")
        /\ last.pre.share_protocol = None => last.result = None
        /\ last.pre.share_protocol = "IscsiFe" => last.result = None
        /\ (prev.op = "unshare" /\ prev.pre.share_protocol = "NbdFe")
              => last.result = None

\* get_share_path after the unshare of an NBD export
C21_Witness ==
    /\ last.op = "get_share_path" /\ last.result = None
    /\ prev.op = "unshare" /\ prev.pre.share_protocol = "NbdFe" /\ prev.pre.nbd_disk
    /\ prev.result = "Ok"

\* the last write_label issued all its writes and all of them succeeded
WroteAll == Len(wlog) = NumWrites /\ \A i \in DOMAIN wlog : wlog[i].result = "Ok"

\* the label the last write_label was given, from the buffers it wrote
WrittenLabel ==
    [primary |-> wlog[2].data, table |-> wlog[3].data, secondary |-> wlog[5].data]

\* the results of probe_label that are an allocation or a read that failed
IoFailures == {"LabelAlloc", "LabelRead", "PartitionTableAlloc", "PartitionTableRead"}

\* C22: after a write_label of a well-formed label on an Open child, all of
\* whose writes succeeded, the probe_label that follows on the same child
\* (unless one of its own allocations or reads fails) returns a label with the
\* GUID, the first and last usable LBA and the two partition entries of the
\* label written.
C22_WriteProbeRoundTrip ==
    (/\ clast.op = "probe_label" /\ cprev.op = "write_label"
     /\ cprev.child = clast.child /\ clast.pre.state = "Open"
     /\ WroteAll /\ clast.result \notin IoFailures)
        => /\ clast.result = "Ok"
           /\ Len(clast.out) = 1
           /\ clast.out[1].primary.guid = WrittenLabel.primary.guid
           /\ clast.out[1].secondary.guid = WrittenLabel.secondary.guid
           /\ clast.out[1].primary.lba_start = WrittenLabel.primary.lba_start
           /\ clast.out[1].primary.lba_end = WrittenLabel.primary.lba_end
           /\ clast.out[1].partitions = Partitions(WrittenLabel.table.entries, 2)

C22_Witness ==
    /\ clast.op = "probe_label" /\ cprev.op = "write_label"
    /\ cprev.child = clast.child /\ clast.pre.state = "Open"
    /\ WroteAll /\ clast.result = "Ok"
    /\ clast.out[1].primary.guid = "g2"

\* some share call, or some unshare call, would succeed in the current state
ShareCanSucceed ==
    \E proto \in ShareProtocolNexus, key \in Keys, cryptoOk \in Booleans,
       backendOk \in Booleans :
        ShareOutcome(proto, key, cryptoOk, backendOk).result = "Ok"

UnshareCanSucceed ==
    \E destroyOk \in Booleans, deleteOk \in Booleans :
        UnshareOutcome(destroyOk, deleteOk).result = "Ok"

\* C24: the nexus is never stuck: in every state of a running process a
\* share call or an unshare call can succeed.
C24_NeverStuck == ~panicked => (ShareCanSucceed \/ UnshareCanSucceed)

\* C25: a share call that fails at the creation of its NBD or iSCSI backend
\* leaves no crypto bdev behind.
C25_FailedShareLeavesNoCrypto ==
    (last.op = "share" /\ last.result \in {"ShareNbdNexus", "ShareIscsiNexus"})
        => CryptoName \notin bdevs

BackendDestroy == {"NbdDisk::destroy", "NexusIscsiTarget::destroy"}

\* C26: layers are built bottom-up and torn down top-down.  In share a
\* backend creation is issued only after create_crypto_disk succeeded, when a
\* key was given; in unshare delete_crypto_disk is issued only after the
\* backend teardown was issued, and only when the share handle is not the
\* name of the nexus.
C26_LayerOrder ==
    /\ last.op = "share" =>
          \A i \in DOMAIN last.calls :
              (last.calls[i].call \in BackendCreate /\ last.key # NoKey)
                  => \E j \in 1 .. i - 1 :
                        last.calls[j] = Call("create_crypto_disk", TRUE)
    /\ last.op = "unshare" =>
          \A i \in DOMAIN last.calls :
              last.calls[i].call = "delete_crypto_disk"
                  => /\ \E j \in 1 .. i - 1 : last.calls[j].call \in BackendDestroy
                     /\ last.pre.share_handle # NexusName
                     /\ last.pre.share_handle # None

\* a keyed share that created both layers, then the unshare that removed both
C26_Witness ==
    /\ prev.op = "share" /\ prev.key # NoKey /\ Len(prev.calls) = 2
    /\ prev.result = "Ok"
    /\ last.op = "unshare" /\ Len(last.calls) = 2
    /\ last.calls[2].call = "delete_crypto_disk"

\* C27: write_label stops at the first write that fails.  The writes it
\* issued are a prefix of the five-write sequence, only the last of them can
\* have failed, its result is the result of that last write, and the blocks
\* written before the failure keep what was written (no rollback).
C27_WriteLabelStopsAtFailure ==
    clast.op = "write_label" =>
        /\ Len(wlog) \in 1 .. NumWrites
        /\ \A i \in DOMAIN wlog :
              /\ wlog[i].region = WriteOrder[i].region
              /\ wlog[i].buf = WriteOrder[i].buf
              /\ i < Len(wlog) => wlog[i].result = "Ok"
              /\ wlog[i].result = "Ok" => disk[clast.pre.bdev][wlog[i].lba] = wlog[i].data
        /\ clast.result = wlog[Len(wlog)].result
        /\ clast.result = "Ok" => Len(wlog) = NumWrites

\* the third write failed: two blocks written, the last two writes not issued
C27_Witness ==
    /\ clast.op = "write_label" /\ clast.result = "WriteError"
    /\ Len(wlog) = 3 /\ wlog[3].result = "WriteError"
    /\ disk[clast.pre.bdev][wlog[2].lba] = wlog[2].data

\* ceil(entry_size * num_entries / BlockSize), computed without a 32-bit limit
TableBlocks(entry_size, num_entries) ==
    IF entry_size % BlockSize = 0 THEN (entry_size \div BlockSize) * num_entries
    ELSE IF num_entries % BlockSize = 0 THEN entry_size * (num_entries \div BlockSize)
    ELSE (entry_size * num_entries + BlockSize - 1) \div BlockSize

\* C28: the partition table read of probe_label is
\* ceil(entry_size * num_entries / block_size) blocks long.
C28_TableBlocksIsCeiling ==
    (clast.op = "probe_label" /\ Len(clast.calls) = 4) =>
        clast.calls[4].blocks
            = TableBlocks(ProbedPrimary.entry_size, ProbedPrimary.num_entries)

\* C23: every future of the iSCSI backend completes: once created, the future
\* of start (and so IscsiTarget::create) and the future of unshare are
\* eventually done.
C23_FuturesComplete == \A t \in Tasks : (pc[t] = "created") ~> (pc[t] = "done")

\* the registry after the last call holds nothing the call before it lacked
NothingAdded ==
    /\ portal_grps \subseteq ilast.pre.portal_grps
    /\ init_grps \subseteq ilast.pre.init_grps

\* C29: init is all-or-nothing and fini undoes it.  An init that fails leaves
\* registered no group that was not registered before it; after a fini that
\* follows a successful init, the back-end and front-end portal groups and the
\* initiator group are not registered.
C29_InitAllOrNothing ==
    /\ (ilast.op = "init" /\ ilast.result # "Ok") => NothingAdded
    /\ (ilast.op = "fini" /\ iprev.op = "init" /\ iprev.result = "Ok")
          => /\ ISCSI_PORTAL_GROUP_BE \notin portal_grps
             /\ ISCSI_PORTAL_GROUP_FE \notin portal_grps
             /\ ISCSI_INITIATOR_GROUP \notin init_grps

====
